---- MODULE Spec2Model ----
(***************************************************************************)
(* Channel tracker bot (src/bot.py): a store of tracked channels, the      *)
(* chat-action event handler, the /add and /add_range commands and the     *)
(* polling loop, all coroutines of one cooperative event loop.             *)
(*                                                                         *)
(* A coroutine runs from one await to the next without interruption, and   *)
(* at an await any other coroutine may run.  Between two accesses to what  *)
(* the coroutines share (the store, the membership, the clock) a coroutine *)
(* often passes several awaits in a row that touch only its own locals (a  *)
(* rate-limit sleep and the retry after it, a second send_message, ...).   *)
(* Steps of others commute with those, so the model lets the others in at  *)
(* the first await of such a row only: a program counter in YieldPcs.  At  *)
(* any other program counter only its owner steps.  A handler or /add      *)
(* accesses the store once, so it has one such await (get_me, or the first *)
(* respond); the poll has one before every store access (the sleep of the  *)
(* interval that get_dialogs follows, the first get_entity of a            *)
(* get_channel_info call, the first send_message).                         *)
(*                                                                         *)
(* Two coroutines are modelled: "poll" (poll_channels) and "task", the one *)
(* event handler or command in flight.  Telethon (not in src/) is the      *)
(* environment: every call into it answers with any outcome its callers    *)
(* handle (a value, FloodWaitError, another exception).                    *)
(*                                                                         *)
(* Five specifications share the actions.  Spec: the poll, the handler     *)
(* and /add interleaved, with time passing.  SpecHist: the same without    *)
(* day-long time steps, with the history of the poll cycle recorded in     *)
(* hist.  SpecRange: /add_range, started on any store an earlier run of    *)
(* the program may have left in the database file.  SpecStale: the poll    *)
(* after a restart, on a file whose rows were last checked around the      *)
(* staleness cutoff, with the channels the refresh kept recorded in hist.  *)
(* SpecLive: SpecStale with the event loop's fairness to the poll.         *)
(***************************************************************************)
EXTENDS Integers, FiniteSets, Sequences, TLC

\* ---------------------------------------------------------------- bounds
NumIds == 2
MaxFlood == 1
MaxTicks == 1
T0 == 100000

\* ------------------------------------------------------- program constants
StaleCutoff == 86400
UpdateThreshold == 50
NotifyThreshold == 100
PauseEvery == 10
ProgressEvery == 50
RangePauseEvery == 10
\* the operator's id (config.py); user ids and channel ids are apart
ADMIN_ID == 0

Ids == 1..NumIds
\* the references /add_range is given: channel ids, the operator's id and an
\* id below it that is no channel's
RangeRefs == Ids \cup {ADMIN_ID, ADMIN_ID - 1}
\* (title, subscribers) pairs the platform answers with
Infos == { <<"X", 0>>, <<"X", 51>>, <<"Y", 101>> }
\* the titles of the channels whose count lookup fails
LookupFailTitles == {"X"}
FloodSecs == {3}
\* time.time() advances between steps by one of these amounts
TickSizes == {StaleCutoff + 1}

Procs == {"poll", "task"}
YieldPcs == [p \in Procs |-> IF p = "poll"
                               THEN {"interval", "entity", "send"}
                               ELSE {"idle", "me", "resp0", "rresp", "redit", "rpause"}]

VARIABLES
  live,     \* channels the bot is a member of (the platform's truth)
  now,      \* time.time()
  store,    \* rows of table channels: [id, title, subs, lc]
  pc,       \* pc[p]: where coroutine p is
  stage,    \* stage[p]: the caller get_channel_info / send_admin_notification returns to
  peer,     \* peer[p]: the reference get_channel_info was called with
  fl,       \* fl[p]: FloodWaitErrors met by the current get_channel_info call
  calls,    \* calls[p]: client.get_entity calls made by the current get_channel_info call
  exc,      \* exc[p]: e.seconds of the FloodWaitError p is handling
  wait,     \* wait[p]: the argument of the asyncio.sleep p is in
  padds,    \* poll: ids of new_channels not iterated yet
  prems,    \* poll: db_map rows of removed_channels not iterated yet
  pupd,     \* poll: rows of channels_to_update not iterated yet
  pidx,     \* poll: idx of the refresh loop
  rng,      \* /add_range: its locals
  out,      \* what the last step did to the store and handed to the notifier
  hist      \* history of the poll cycle (recorded in SpecHist and SpecStale)

vars == <<live, now, store, pc, stage, peer, fl, calls, exc, wait, padds, prems, pupd,
          pidx, rng, out, hist>>

\* out: by, the coroutine; op, what it did; id, the channel; ok, whether the
\* store statement changed a row; note, the kind of message handed to
\* send_admin_notification ("none": no message); same, whether the title and
\* count in a "removed" message are those of the row the store held before
\* the step; lookup, whether the count written came from a count lookup
\* that succeeded; limited, whether it is the count put in place of one that
\* a rate-limited count lookup did not give; had, whether the store had a
\* row of the id before an upsert
NoOut == [by |-> "none", op |-> "none", id |-> 0, ok |-> FALSE, note |-> "none",
          same |-> TRUE, lookup |-> TRUE, limited |-> FALSE, had |-> FALSE]
Did(p, op, id, ok) ==
  [by |-> p, op |-> op, id |-> id, ok |-> ok, note |-> "none", same |-> TRUE,
   lookup |-> TRUE, limited |-> FALSE, had |-> FALSE]
Msg(o, note, same) == [o EXCEPT !.note = note, !.same = same]
\* the step wrote the count of get_channel_info's result r
Cnt(o, r) == [o EXCEPT !.lookup = r.lookup, !.limited = r.limited]

\* what get_channel_info returns: None or a dict with 'error' (kind "fail"), or
\* the channel's dict; lookup: whether GetFullChannelRequest gave the count;
\* limited: whether it raised FloodWaitError
Fail == [kind |-> "fail", title |-> "", subs |-> 0, lookup |-> TRUE, limited |-> FALSE]
\* `channel_info and not channel_info.get('error')`
InfoOk(r) == r.kind = "ok"

\* rng: start_id, end_id (normalized), i of enumerate, added_count; and for
\* the record: ups, the ids whose upsert succeeded; s0, the store at the start;
\* tried, the ids get_channel_info was called with, in order; edits, the
\* (processed, added) pairs progress_msg.edit was called with, in order
NoRng == [lo |-> 0, hi |-> 0, i |-> 0, added |-> 0, ups |-> {}, s0 |-> {},
          tried |-> <<>>, edits |-> <<>>]

\* hist: since the diff of the cycle in progress -- stable: the membership
\* did not change; fetched: every get_channel_info of the poll gave a
\* channel; wrote: every store statement of the poll changed a row; alone: no
\* handler or command changed the store.  run1: from the end of a
\* reconciliation (adds and removes) to the next diff, the membership did not
\* change and nobody else changed the store since that reconciliation's diff;
\* run2: so, and that reconciliation's fetches and store statements all
\* succeeded.  From a diff to the end of its reconciliation run1 and run2 keep
\* the value they had at the diff: they say of that run that it is a second
\* run in succession.  kept: the ids the refresh left as they were since the
\* last selection; again: at a selection, the ids of kept that the store has.
NoHist == [stable |-> FALSE, fetched |-> FALSE, wrote |-> FALSE, alone |-> FALSE,
           run1 |-> FALSE, run2 |-> FALSE, kept |-> {}, again |-> {}]

\* --------------------------------------------------------------- the store
RowsOf(S, id) == { r \in S : r.id = id }
IdsOf(S) == { r.id : r \in S }
SubsOf(S, id) == { r.subs : r \in RowsOf(S, id) }
LcOf(S, id) == { r.lc : r \in RowsOf(S, id) }
\* the message's title and count are those of a row of id in S
SameAs(S, id, title, subs) == \E r \in RowsOf(S, id) : r.title = title /\ r.subs = subs

\* a variant of the upsert for a table whose id is no key: the row is added
\* and the rows of the id stay
add_channel_to_dbNoKey(S, id, title, subs, e) ==
  IF e THEN S
  ELSE S \cup {[id |-> id, title |-> title, subs |-> subs, lc |-> 0]}

\* INSERT OR REPLACE INTO channels (id, title, access_hash, link, subscribers):
\* last_checked takes its DEFAULT 0.  e: the statement raises sqlite3.Error.
add_channel_to_db(S, id, title, subs, e) ==
  IF e THEN S
  ELSE (S \ RowsOf(S, id)) \cup {[id |-> id, title |-> title, subs |-> subs, lc |-> 0]}

\* DELETE FROM channels WHERE id = ?
remove_channel_from_db(S, id, e) ==
  IF e THEN S ELSE S \ RowsOf(S, id)

\* a variant of the result that is True whenever the statement ran
removed_rowsAny(S, id, e) == ~e

\* the value remove_channel_from_db returns: cursor.rowcount > 0
removed_rows(S, id, e) == ~e /\ RowsOf(S, id) # {}

\* UPDATE channels SET subscribers = ?, last_checked = ? WHERE id = ?
update_channel_subscribers(S, id, subs, t, e) ==
  IF e THEN S
  ELSE { IF r.id = id THEN [r EXCEPT !.subs = subs, !.lc = t] ELSE r : r \in S }

\* the label of a step that called add_channel_to_db for id c
Upserted(p, c, ok) == [Did(p, "upsert", c, ok) EXCEPT !.had = RowsOf(store, c) # {}]

\* the rows the database file may hold when the program starts
StartRows == { [id |-> c, title |-> "X", subs |-> 51, lc |-> 0] : c \in Ids }

\* the coroutines at the start: the poll task created, no handler running
InitTasks ==
  /\ now = T0
  /\ pc = [p \in Procs |-> IF p = "poll" THEN "interval" ELSE "idle"]
  /\ stage = [p \in Procs |-> "none"]
  /\ peer = [p \in Procs |-> 0]
  /\ fl = [p \in Procs |-> 0]
  /\ calls = [p \in Procs |-> 0]
  /\ exc = [p \in Procs |-> 0]
  /\ wait = [p \in Procs |-> 0]
  /\ padds = {}
  /\ prems = {}
  /\ pupd = {}
  /\ pidx = 0
  /\ rng = NoRng
  /\ out = NoOut
  /\ hist = NoHist

InitVars == live = {} /\ InitTasks

\* init_db on a new database file
Init == InitVars /\ store = {}

\* init_db on the file an earlier run left (CREATE TABLE IF NOT EXISTS)
InitRange == InitVars /\ store \in SUBSET StartRows

\* the last_checked values an earlier run left: never checked, and checked
\* one second more than, exactly, and one second less than the cutoff ago
StartChecked == {0, T0 - (StaleCutoff + 1), T0 - StaleCutoff, T0 - (StaleCutoff - 1)}
StaleRows ==
  { [id |-> c, title |-> "X", subs |-> 51, lc |-> t] : c \in Ids, t \in StartChecked }

\* a restart: the bot is a member of any channels, the file has at most one
\* row per id (id is the PRIMARY KEY), refreshed at any of these times
InitStale ==
  /\ InitTasks
  /\ live \in SUBSET Ids
  /\ store \in { S \in SUBSET StaleRows : \A c \in Ids : Cardinality(RowsOf(S, c)) <= 1 }

\* coroutine p may take a step: no other coroutine is inside a row of its own
Runs(p) == \A q \in Procs \ {p} : pc[q] \in YieldPcs[q]
\* no coroutine is inside a row of steps of its own
Quiet == \A q \in Procs : pc[q] \in YieldPcs[q]

pollLocals == <<padds, prems, pupd, pidx>>
\* the locals of get_channel_info and send_admin_notification
callLocals == <<fl, calls, exc, wait>>

\* p is at pc k; its call locals are cleared
Goto(p, k) ==
  /\ pc' = [pc EXCEPT ![p] = k]
  /\ fl' = [fl EXCEPT ![p] = 0]
  /\ calls' = [calls EXCEPT ![p] = 0]
  /\ exc' = [exc EXCEPT ![p] = 0]
  /\ wait' = [wait EXCEPT ![p] = 0]

\* p starts asyncio.sleep(s) at pc k
Sleep(p, k, s) ==
  /\ pc' = [pc EXCEPT ![p] = k]
  /\ fl' = [fl EXCEPT ![p] = 0]
  /\ calls' = [calls EXCEPT ![p] = 0]
  /\ exc' = [exc EXCEPT ![p] = 0]
  /\ wait' = [wait EXCEPT ![p] = s]

\* the call get_channel_info(c): entity = await client.get_entity(peer)
CallInfo(p, c, st) ==
  /\ pc' = [pc EXCEPT ![p] = "entity"]
  /\ stage' = [stage EXCEPT ![p] = st]
  /\ peer' = [peer EXCEPT ![p] = c]
  /\ fl' = [fl EXCEPT ![p] = 0]
  /\ calls' = [calls EXCEPT ![p] = 1]
  /\ exc' = [exc EXCEPT ![p] = 0]
  /\ wait' = [wait EXCEPT ![p] = 0]

\* the call send_admin_notification(message): await client.send_message(...)
CallSend(p) == Goto(p, "send")

\* ------------------------------------------------------------ poll_channels
\* variants of the diff: one that forgets that a channel is stored, one that
\* takes the symmetric difference, one that takes every stored row as
\* removed, one that takes none
NewChannelsAny(current, S) == current
NewChannelsSym(current, S) == (current \ IdsOf(S)) \cup (IdsOf(S) \ current)
RemovedChannelsAny(current, S) ==
  { [id |-> r.id, title |-> r.title, subs |-> r.subs] : r \in S }
RemovedChannelsNone(current, S) == {}

\* a variant of the selection that takes a channel checked exactly the
\* cutoff ago as well
ChannelsToUpdateAtCutoff(S, t) ==
  { [id |-> r.id, title |-> r.title, subs |-> r.subs] :
      r \in { q \in S : t - q.lc >= StaleCutoff } }

\* new_channels = current_channels - db_ids
NewChannels(current, S) == current \ IdsOf(S)
\* removed_channels = db_ids - current_channels, with db_map's row of each
RemovedChannels(current, S) ==
  { [id |-> r.id, title |-> r.title, subs |-> r.subs] : r \in { q \in S : q.id \notin current } }
\* channels_to_update = [c for c in db_channels if time.time() - c[5] > 86400]
ChannelsToUpdate(S, t) ==
  { [id |-> r.id, title |-> r.title, subs |-> r.subs] :
      r \in { q \in S : t - q.lc > StaleCutoff } }
\* a variant of the refresh that stamps the row of a channel whose count it
\* leaves as it is
UntouchedStamped(S, id, t) ==
  { IF r.id = id THEN [r EXCEPT !.lc = t] ELSE r : r \in S }
\* the store after the refresh found no significant change for id: the `if`
\* of line 422 has no else, no statement runs
Untouched(S, id, t) == S
\* abs(channel_info['subscribers'] - channel[4])
Abs(x) == IF x < 0 THEN -x ELSE x
Significant(n, o) == Abs(n - o) > UpdateThreshold
Notable(n, o) == Abs(n - o) > NotifyThreshold
\* the row the refresh loop is at: rows come in the table's order (by id)
CurRow == CHOOSE r \in pupd : \A q \in pupd : r.id <= q.id

\* asyncio.sleep(POLLING_INTERVAL) is over: logger.info, await client.get_dialogs()
poll_wake ==
  /\ pc["poll"] = "interval" /\ Runs("poll")
  /\ Goto("poll", "dialogs")
  /\ out' = NoOut
  /\ UNCHANGED <<live, now, store, stage, peer, pollLocals, rng>>

\* get_dialogs answered: current_channels, get_all_channels_from_db(), the diff
poll_dialogs ==
  /\ pc["poll"] = "dialogs" /\ Runs("poll")
  /\ \/ /\ padds' = NewChannels(live, store)
        /\ prems' = RemovedChannels(live, store)
        /\ pc' = [pc EXCEPT !["poll"] = "adds"]
        /\ stage' = [stage EXCEPT !["poll"] = "add"]
        /\ out' = Did("poll", "diff", 0, TRUE)
     \/ \* get_all_channels_from_db raised: except Exception (line 445)
        /\ pc' = [pc EXCEPT !["poll"] = "interval"]
        /\ out' = Did("poll", "abort", 0, FALSE)
        /\ UNCHANGED <<padds, prems, stage>>
  /\ UNCHANGED <<live, now, store, peer, callLocals, pupd, pidx, rng>>

\* get_dialogs raised: except FloodWaitError (sleep e.seconds) or except Exception
poll_dialogs_raise ==
  /\ pc["poll"] = "dialogs" /\ Runs("poll")
  /\ \/ \E s \in FloodSecs : Sleep("poll", "xsleep", s)
     \/ Goto("poll", "interval")
  /\ out' = Did("poll", "abort", 0, FALSE)
  /\ UNCHANGED <<live, now, store, stage, peer, pollLocals, rng>>

\* the sleep of `except FloodWaitError` (line 444) is over: line 449
poll_xwake ==
  /\ pc["poll"] = "xsleep" /\ Runs("poll")
  /\ Goto("poll", "interval")
  /\ out' = NoOut
  /\ UNCHANGED <<live, now, store, stage, peer, pollLocals, rng>>

\* for channel_id in new_channels: the dialog's entity, get_channel_info(entity)
poll_adds ==
  /\ pc["poll"] = "adds"
  /\ IF padds = {}
       THEN /\ pc' = [pc EXCEPT !["poll"] = "rems"]
            /\ stage' = [stage EXCEPT !["poll"] = "rem"]
            /\ peer' = [peer EXCEPT !["poll"] = 0]
            /\ UNCHANGED <<padds, callLocals>>
       ELSE \E c \in padds :
            /\ padds' = padds \ {c}
            /\ CallInfo("poll", c, "add")
  /\ out' = NoOut
  /\ UNCHANGED <<live, now, store, prems, pupd, pidx, rng>>

\* whether the poll sends "New channel detected!" after add_channel_to_db
\* returned `added`: the result is not looked at
PollNotifiesAdd(added) == TRUE

\* get_channel_info returned r to the add loop
poll_add_ret(r) ==
  /\ LET c == peer["poll"]
     IN IF InfoOk(r)
          THEN \E e \in BOOLEAN :
               /\ store' = add_channel_to_db(store, c, r.title, r.subs, e)
               /\ IF PollNotifiesAdd(~e)
                    THEN /\ out' = Cnt(Msg(Upserted("poll", c, ~e), "added", TRUE),
                                       r)
                         /\ CallSend("poll")
                    ELSE /\ out' = Cnt(Upserted("poll", c, ~e), r)
                         /\ Goto("poll", "adds")
          ELSE /\ Goto("poll", "adds")
               /\ out' = Did("poll", "skip", c, FALSE)
               /\ UNCHANGED store
  /\ UNCHANGED <<live, now, stage, peer, pollLocals, rng>>

\* the data of the poll's "Removed from channel!" message: db_map's row
PollRemovedData(r, S) == r

\* for channel_id in removed_channels; after the last one, the refresh's
\* get_all_channels_from_db() and channels_to_update
poll_rems ==
  /\ pc["poll"] = "rems"
  /\ IF prems = {}
       THEN /\ \/ /\ pupd' = ChannelsToUpdate(store, now)
                  /\ pidx' = 0
                  /\ pc' = [pc EXCEPT !["poll"] = "upd"]
                  /\ stage' = [stage EXCEPT !["poll"] = "upd"]
                  /\ out' = Did("poll", "select", 0, TRUE)
               \/ \* get_all_channels_from_db raised: except Exception (line 445)
                  /\ pc' = [pc EXCEPT !["poll"] = "interval"]
                  /\ stage' = [stage EXCEPT !["poll"] = "none"]
                  /\ out' = Did("poll", "abort", 0, FALSE)
                  /\ UNCHANGED <<pupd, pidx>>
            /\ UNCHANGED <<store, prems, callLocals>>
       ELSE \E r \in prems, e \in BOOLEAN :
            /\ prems' = prems \ {r}
            /\ store' = remove_channel_from_db(store, r.id, e)
            /\ IF removed_rows(store, r.id, e)
                 THEN /\ LET d == PollRemovedData(r, store)
                         IN out' = Msg(Did("poll", "delete", r.id, TRUE), "removed",
                                       SameAs(store, r.id, d.title, d.subs))
                      /\ CallSend("poll")
                 ELSE /\ out' = Did("poll", "delete", r.id, FALSE)
                      /\ UNCHANGED <<pc, callLocals>>
            /\ UNCHANGED <<stage, pupd, pidx>>
  /\ UNCHANGED <<live, now, peer, padds, rng>>

\* the next iteration of the refresh loop
NextIter ==
  /\ pupd' = pupd \ {CurRow}
  /\ pidx' = pidx + 1
  /\ Goto("poll", "upd")

\* for idx, channel in enumerate(channels_to_update): get_channel_info(channel[0]);
\* after the last one the cycle ends: line 449
poll_upd ==
  /\ pc["poll"] = "upd"
  /\ IF pupd = {}
       THEN /\ Goto("poll", "interval")
            /\ stage' = [stage EXCEPT !["poll"] = "none"]
            /\ peer' = [peer EXCEPT !["poll"] = 0]
            /\ pidx' = 0
            /\ out' = Did("poll", "complete", 0, TRUE)
       ELSE /\ CallInfo("poll", CurRow.id, "upd")
            /\ out' = NoOut
            /\ UNCHANGED pidx
  /\ UNCHANGED <<live, now, store, padds, prems, pupd, rng>>

\* `if idx % 10 == 0: await asyncio.sleep(2)`, else the next iteration
PauseCheck ==
  IF pidx % PauseEvery = 0
    THEN /\ Sleep("poll", "pause", 2)
         /\ UNCHANGED <<pupd, pidx>>
    ELSE NextIter

\* get_channel_info returned r to the refresh loop
poll_upd_ret(r) ==
  /\ LET ch == CurRow
     IN IF InfoOk(r)
          THEN IF Significant(r.subs, ch.subs)
                 THEN \E e \in BOOLEAN :
                      /\ store' = update_channel_subscribers(store, ch.id, r.subs, now, e)
                      /\ LET o == Cnt(Did("poll", "update", ch.id,
                                          ~e /\ RowsOf(store, ch.id) # {}), r)
                         IN IF Notable(r.subs, ch.subs)
                              THEN /\ out' = Msg(o, "change", TRUE)
                                   /\ CallSend("poll")
                                   /\ UNCHANGED <<pupd, pidx>>
                              ELSE /\ out' = o
                                   /\ PauseCheck
                 ELSE /\ out' = Did("poll", "keep", ch.id, FALSE)
                      /\ PauseCheck
                      /\ store' = Untouched(store, ch.id, now)
          ELSE /\ out' = Did("poll", "skip", ch.id, FALSE)
               /\ NextIter
               /\ UNCHANGED store
  /\ UNCHANGED <<live, now, stage, peer, padds, prems, rng>>

\* send_admin_notification returned to the poll
poll_sent ==
  /\ CASE stage["poll"] = "add" ->
            /\ Goto("poll", "adds")
            /\ UNCHANGED <<pupd, pidx>>
       [] stage["poll"] = "rem" ->
            /\ Goto("poll", "rems")
            /\ UNCHANGED <<pupd, pidx>>
       [] OTHER -> PauseCheck
  /\ out' = NoOut
  /\ UNCHANGED <<live, now, store, stage, peer, padds, prems, rng>>

\* a variant of the poll without the handlers of lines 442-446: an exception
\* in the add or remove loop ends the coroutine
poll_raisedOut(s) ==
  /\ IF stage["poll"] \in {"add", "rem"}
       THEN /\ pc' = [pc EXCEPT !["poll"] = "over"]
            /\ UNCHANGED <<callLocals, pupd, pidx>>
       ELSE /\ pupd' = pupd \ {CHOOSE r \in pupd : \A q \in pupd : r.id <= q.id}
            /\ pidx' = pidx + 1
            /\ pc' = [pc EXCEPT !["poll"] = "upd"]
            /\ UNCHANGED callLocals
  /\ out' = Did("poll", "cut", 0, FALSE)
  /\ UNCHANGED <<live, now, store, stage, peer, padds, prems, rng>>

\* send_admin_notification or get_channel_info raised into the poll (s > 0:
\* FloodWaitError(s)).  The
\* add and remove loops (lines 383-409) have no try of their own: the cycle's
\* handlers (lines 442-446) take it and the cycle is cut short.  In the refresh
\* loop lines 437-440 take it.
poll_raised(s) ==
  /\ IF stage["poll"] \in {"add", "rem"}
       THEN /\ IF s > 0 THEN Sleep("poll", "xsleep", s)
                        ELSE Goto("poll", "interval")
            /\ stage' = [stage EXCEPT !["poll"] = "none"]
            /\ out' = Did("poll", "cut", 0, FALSE)
            /\ UNCHANGED <<pupd, pidx>>
       ELSE /\ IF s > 0
                 THEN /\ Sleep("poll", "backoff", s)
                      /\ UNCHANGED <<pupd, pidx>>
                 ELSE NextIter
            /\ out' = NoOut
            /\ UNCHANGED stage
  /\ UNCHANGED <<live, now, store, peer, padds, prems, rng>>

\* asyncio.sleep(2) (line 436) or asyncio.sleep(e.seconds) (line 438) is over
poll_resume ==
  /\ pc["poll"] \in {"pause", "backoff"} /\ Runs("poll")
  /\ NextIter
  /\ out' = NoOut
  /\ UNCHANGED <<live, now, store, stage, peer, padds, prems, rng>>

\* ------------------------------------------- handle_chat_action, /add
\* the handler or command is over (it returned, or an exception left it)
TaskEnd ==
  /\ Goto("task", "idle")
  /\ stage' = [stage EXCEPT !["task"] = "none"]
  /\ peer' = [peer EXCEPT !["task"] = 0]

\* a ChatAction event about the bot itself, with chat_id k: await client.get_me()
StartHandler(kind, k) ==
  /\ pc' = [pc EXCEPT !["task"] = "me"]
  /\ stage' = [stage EXCEPT !["task"] = kind]
  /\ peer' = [peer EXCEPT !["task"] = k]

\* event.chat_id of an event of channel c.  Telethon gives the id of an
\* entity (entity.id, the store's key) and the id of a chat in an event in
\* forms of its own: the two are equal, or chat_id is the marked form.
Marked(c) == 0 - c
ChatIds(c) == {c, Marked(c)}

\* the bot is added to channel c; the event reaches the handler or is lost.
\* get_channel_info resolves either form of chat_id to the entity of c.
env_join ==
  /\ Quiet
  /\ \E c \in Ids \ live :
       /\ live' = live \cup {c}
       /\ \/ /\ pc["task"] = "idle"
             /\ StartHandler("join", c)
          \/ UNCHANGED <<pc, stage, peer>>
  /\ out' = NoOut
  /\ UNCHANGED <<now, store, callLocals, pollLocals, rng>>

\* the bot leaves or is kicked from channel c
env_leave ==
  /\ Quiet
  /\ \E c \in live :
       /\ live' = live \ {c}
       /\ \/ /\ pc["task"] = "idle"
             /\ \E k \in ChatIds(c) : StartHandler("left", k)
          \/ UNCHANGED <<pc, stage, peer>>
  /\ out' = NoOut
  /\ UNCHANGED <<now, store, callLocals, pollLocals, rng>>

\* time passes
env_tick ==
  /\ Quiet
  /\ \E d \in TickSizes :
       /\ now + d <= T0 + MaxTicks * (StaleCutoff + 1)
       /\ now' = now + d
  /\ out' = NoOut
  /\ UNCHANGED <<live, store, pc, stage, peer, callLocals, pollLocals, rng>>

\* the admin sends /add c: await event.respond("Adding channel ID ...")
add_channel_command ==
  /\ Quiet /\ pc["task"] = "idle"
  /\ \E c \in Ids :
       /\ pc' = [pc EXCEPT !["task"] = "resp0"]
       /\ stage' = [stage EXCEPT !["task"] = "cmd"]
       /\ peer' = [peer EXCEPT !["task"] = c]
  /\ out' = NoOut
  /\ UNCHANGED <<live, now, store, callLocals, pollLocals, rng>>

\* the first respond went through: get_channel_info(channel_id); or it raised:
\* except Exception, await event.respond(error)
task_resp0 ==
  /\ pc["task"] = "resp0" /\ Runs("task")
  /\ \/ CallInfo("task", peer["task"], "cmd")
     \/ /\ Goto("task", "resp1")
        /\ UNCHANGED <<stage, peer>>
  /\ out' = NoOut
  /\ UNCHANGED <<live, now, store, pollLocals, rng>>

\* the data of the handler's "Removed from channel!" message: channel_data,
\* read from the store right before the delete
TaskRemovedData(S, c) == RowsOf(S, c)

\* get_me answered (lines 177 and 178: two awaits with nothing between them, one
\* suspension here): the join branch calls get_channel_info, the left branch
\* reads the store, deletes and notifies; or get_me raised
task_me ==
  /\ pc["task"] = "me" /\ Runs("task")
  /\ LET c == peer["task"]
     IN \/ /\ stage["task"] = "join"
           /\ CallInfo("task", c, "join")
           /\ out' = NoOut
           /\ UNCHANGED store
        \/ /\ stage["task"] = "left"
           /\ \E e \in BOOLEAN :
                /\ store' = remove_channel_from_db(store, c, e)
                /\ IF removed_rows(store, c, e)
                     THEN /\ LET d == CHOOSE r \in TaskRemovedData(store, c) : TRUE
                             IN out' = Msg(Did("task", "delete", c, TRUE), "removed",
                                           SameAs(store, c, d.title, d.subs))
                          /\ CallSend("task")
                          /\ UNCHANGED <<stage, peer>>
                     ELSE /\ out' = Did("task", "delete", c, FALSE)
                          /\ TaskEnd
        \/ \* get_me, or get_all_channels_from_db of the left branch, raised
           /\ TaskEnd
           /\ out' = NoOut
           /\ UNCHANGED store
  /\ UNCHANGED <<live, now, pollLocals, rng>>

\* get_channel_info returned r to the join branch (line 183) or to /add (line 265)
task_ret(r) ==
  /\ LET c == peer["task"]
     IN IF InfoOk(r)
          THEN \E e \in BOOLEAN :
               /\ store' = add_channel_to_db(store, c, r.title, r.subs, e)
               /\ IF stage["task"] = "join"
                    THEN IF ~e
                           THEN /\ out' = Cnt(Msg(Upserted("task", c, TRUE),
                                                  "added", TRUE), r)
                                /\ CallSend("task")
                                /\ UNCHANGED <<stage, peer>>
                           ELSE /\ out' = Cnt(Upserted("task", c, FALSE), r)
                                /\ TaskEnd
                    ELSE /\ out' = Cnt(Upserted("task", c, ~e), r)
                         /\ Goto("task", "resp1")
                         /\ UNCHANGED <<stage, peer>>
          ELSE /\ IF stage["task"] = "join"
                    THEN TaskEnd
                    ELSE /\ Goto("task", "resp1")
                         /\ UNCHANGED <<stage, peer>>
               /\ out' = Did("task", "skip", c, FALSE)
               /\ UNCHANGED store
  /\ UNCHANGED <<live, now, pollLocals, rng>>

\* the last respond of /add, or the respond of `except Exception` of a command,
\* is over
task_resp1 ==
  /\ pc["task"] = "resp1" /\ Runs("task")
  /\ TaskEnd
  /\ rng' = NoRng
  /\ out' = NoOut
  /\ UNCHANGED <<live, now, store, pollLocals>>

\* send_admin_notification returned to, or raised into, the handler: it is over
task_sent ==
  /\ TaskEnd
  /\ out' = NoOut
  /\ UNCHANGED <<live, now, store, pollLocals, rng>>

\* an exception left get_channel_info into the join branch (the handler is
\* over) or into /add (except Exception, line 294: respond(error))
task_raised ==
  /\ IF stage["task"] = "join"
       THEN TaskEnd
       ELSE /\ Goto("task", "resp1")
            /\ UNCHANGED <<stage, peer>>
  /\ out' = Did("task", "skip", peer["task"], FALSE)
  /\ UNCHANGED <<live, now, store, pollLocals, rng>>

\* ------------------------------------------------------------- /add_range
\* a variant of the progress report that reports at the last id only
RangeProgressLast(g) ==
  IF g.i = (g.hi - g.lo + 1) - 1
    THEN /\ pc' = [pc EXCEPT !["task"] = "redit"]
         /\ fl' = [fl EXCEPT !["task"] = 0]
         /\ calls' = [calls EXCEPT !["task"] = 0]
         /\ exc' = [exc EXCEPT !["task"] = 0]
         /\ wait' = [wait EXCEPT !["task"] = 0]
         /\ rng' = [g EXCEPT !.edits = Append(g.edits, <<g.i + 1, g.added>>)]
    ELSE /\ pc' = [pc EXCEPT !["task"] = IF g.i % RangePauseEvery = 0 THEN "rpause"
                                                                     ELSE "rloop"]
         /\ fl' = [fl EXCEPT !["task"] = 0]
         /\ calls' = [calls EXCEPT !["task"] = 0]
         /\ exc' = [exc EXCEPT !["task"] = 0]
         /\ wait' = [wait EXCEPT !["task"] = 0]
         /\ rng' = IF g.i % RangePauseEvery = 0 THEN g ELSE [g EXCEPT !.i = g.i + 1]
\* a variant of the count that counts every channel fetched
CountedAll(added, ok) == added + 1
\* `if add_channel_to_db(...): added_count += 1`
Counted(added, ok) == IF ok THEN added + 1 ELSE added
\* total_channels = end_id - start_id + 1
TotalChannels(g) == g.hi - g.lo + 1

\* the admin sends /add_range a b: the range is normalized, added_count = 0,
\* progress_msg = await event.respond(...)
add_range_command ==
  /\ Quiet /\ pc["task"] = "idle"
  /\ \E a \in RangeRefs, b \in RangeRefs :
       rng' = [lo |-> IF a > b THEN b ELSE a, hi |-> IF a > b THEN a ELSE b,
               i |-> 0, added |-> 0, ups |-> {}, s0 |-> store,
               tried |-> <<>>, edits |-> <<>>]
  /\ pc' = [pc EXCEPT !["task"] = "rresp"]
  /\ stage' = [stage EXCEPT !["task"] = "range"]
  /\ out' = NoOut
  /\ UNCHANGED <<live, now, store, peer, callLocals, pollLocals>>

\* the respond went through, or raised: except Exception, respond(error)
range_resp ==
  /\ pc["task"] = "rresp" /\ Runs("task")
  /\ \/ Goto("task", "rloop")
     \/ Goto("task", "resp1")
  /\ out' = NoOut
  /\ UNCHANGED <<live, now, store, stage, peer, pollLocals, rng>>

\* for i, channel_id in enumerate(range(start_id, end_id + 1)): the admin's id
\* is passed over (continue), any other id goes to get_channel_info; after the
\* last one: await event.respond("Range processing complete! ...")
range_loop ==
  /\ pc["task"] = "rloop"
  /\ LET c == rng.lo + rng.i
     IN IF c > rng.hi
          THEN /\ Goto("task", "rfinal")
               /\ out' = Did("task", "report", 0, TRUE)
               /\ UNCHANGED <<stage, peer, rng>>
          ELSE IF c = ADMIN_ID
                 THEN /\ rng' = [rng EXCEPT !.i = rng.i + 1]
                      /\ out' = NoOut
                      /\ UNCHANGED <<pc, stage, peer, callLocals>>
                 ELSE /\ CallInfo("task", c, "range")
                      /\ rng' = [rng EXCEPT !.tried = Append(rng.tried, c)]
                      /\ out' = NoOut
  /\ UNCHANGED <<live, now, store, pollLocals>>

\* `if i % 10 == 0: await asyncio.sleep(0.5)`, else the next iteration
RangePauseCheck(g) ==
  IF g.i % RangePauseEvery = 0
    THEN /\ Goto("task", "rpause")
         /\ rng' = g
    ELSE /\ Goto("task", "rloop")
         /\ rng' = [g EXCEPT !.i = g.i + 1]

\* `if i % 50 == 0 or i == total_channels - 1: await progress_msg.edit(...)`
RangeProgress(g) ==
  IF g.i % ProgressEvery = 0 \/ g.i = TotalChannels(g) - 1
    THEN /\ Goto("task", "redit")
         /\ rng' = [g EXCEPT !.edits = Append(g.edits, <<g.i + 1, g.added>>)]
    ELSE RangePauseCheck(g)

\* get_channel_info returned r to the loop of /add_range
range_ret(r) ==
  /\ LET c == peer["task"]
     IN IF InfoOk(r)
          THEN \E e \in BOOLEAN :
               /\ store' = add_channel_to_db(store, c, r.title, r.subs, e)
               /\ out' = Cnt(Upserted("task", c, ~e), r)
               /\ RangeProgress([rng EXCEPT !.added = Counted(rng.added, ~e),
                                            !.ups = IF e THEN rng.ups
                                                         ELSE rng.ups \cup {c}])
          ELSE /\ out' = Did("task", "skip", c, FALSE)
               /\ RangeProgress(rng)
               /\ UNCHANGED store
  /\ UNCHANGED <<live, now, stage, peer, pollLocals>>

\* an exception left get_channel_info into the loop of /add_range: except
\* Exception: pass (lines 336-337)
range_raised ==
  /\ out' = Did("task", "skip", peer["task"], FALSE)
  /\ RangeProgress(rng)
  /\ UNCHANGED <<live, now, store, stage, peer, pollLocals>>

\* progress_msg.edit went through, or raised: except Exception, respond(error)
range_edit ==
  /\ pc["task"] = "redit" /\ Runs("task")
  /\ \/ RangePauseCheck(rng)
     \/ /\ Goto("task", "resp1")
        /\ UNCHANGED rng
  /\ out' = NoOut
  /\ UNCHANGED <<live, now, store, stage, peer, pollLocals>>

\* asyncio.sleep(0.5) is over
range_pause ==
  /\ pc["task"] = "rpause" /\ Runs("task")
  /\ Goto("task", "rloop")
  /\ rng' = [rng EXCEPT !.i = rng.i + 1]
  /\ out' = NoOut
  /\ UNCHANGED <<live, now, store, stage, peer, pollLocals>>

\* the final respond went through (the command is over), or raised: except
\* Exception, respond(error)
range_final ==
  /\ pc["task"] = "rfinal" /\ Runs("task")
  /\ \/ /\ TaskEnd
        /\ rng' = NoRng
     \/ /\ Goto("task", "resp1")
        /\ UNCHANGED <<stage, peer, rng>>
  /\ out' = NoOut
  /\ UNCHANGED <<live, now, store, pollLocals>>

\* ------------------------------------------------------- get_channel_info
\* get_channel_info returns r to its caller
Return(p, r) ==
  IF p = "poll"
    THEN IF stage[p] = "add" THEN poll_add_ret(r) ELSE poll_upd_ret(r)
    ELSE IF stage[p] = "range" THEN range_ret(r) ELSE task_ret(r)

\* get_entity answered a Channel (a reference that is no channel's id gives
\* none): await client(GetFullChannelRequest(entity))
gci_entity_ok(p) ==
  /\ pc[p] \in {"entity", "retry"} /\ Runs(p)
  /\ peer[p] \in Ids
  /\ pc' = [pc EXCEPT ![p] = "full"]
  /\ out' = NoOut
  /\ UNCHANGED <<live, now, store, stage, peer, callLocals, pollLocals, rng>>

\* get_entity answered no Channel (return None) or raised a non-flood error
\* (return {..., 'error': ...})
gci_entity_fail(p) ==
  /\ pc[p] \in {"entity", "retry"} /\ Runs(p)
  /\ Return(p, Fail)

\* a variant of the delay that sleeps twice the time
FloodDelayTwice(s) == s + s
\* the delay get_channel_info sleeps on FloodWaitError(s)
FloodDelay(s) == s

\* get_entity raised FloodWaitError(s): await asyncio.sleep(e.seconds)
gci_entity_flood(p) ==
  /\ pc[p] \in {"entity", "retry"} /\ Runs(p)
  /\ fl[p] < MaxFlood
  /\ \E s \in FloodSecs :
       /\ exc' = [exc EXCEPT ![p] = s]
       /\ wait' = [wait EXCEPT ![p] = FloodDelay(s)]
  /\ fl' = [fl EXCEPT ![p] = fl[p] + 1]
  /\ pc' = [pc EXCEPT ![p] = "fsleep"]
  /\ out' = NoOut
  /\ UNCHANGED <<live, now, store, stage, peer, calls, pollLocals, rng>>

\* the reference get_channel_info retries with after the sleep
RetryPeer(p) == peer[p]

\* the sleep is over: return await get_channel_info(peer)
gci_wake(p) ==
  /\ pc[p] = "fsleep" /\ Runs(p)
  /\ pc' = [pc EXCEPT ![p] = "retry"]
  /\ peer' = [peer EXCEPT ![p] = RetryPeer(p)]
  /\ calls' = [calls EXCEPT ![p] = calls[p] + 1]
  /\ wait' = [wait EXCEPT ![p] = 0]
  /\ exc' = [exc EXCEPT ![p] = 0]
  /\ out' = NoOut
  /\ UNCHANGED <<live, now, store, stage, fl, pollLocals, rng>>

\* an exception leaves get_channel_info into its caller
Raise(p) ==
  IF p = "poll" THEN poll_raised(0)
  ELSE IF stage[p] = "range" THEN range_raised ELSE task_raised

\* the recursion of line 156 is MaxFlood calls deep, at the interpreter's
\* recursion limit: the next call may run as the ones before it, or end in a
\* RecursionError, which the innermost `except Exception` (line 157) turns
\* into an error dict (gci_entity_fail) or which, raised inside the except
\* clauses of lines 153-156, leaves get_channel_info
gci_overflow(p) ==
  /\ pc[p] = "retry" /\ Runs(p)
  /\ fl[p] = MaxFlood
  /\ Raise(p)

\* the count get_channel_info returns when GetFullChannelRequest raised
\* (any Exception, FloodWaitError among them) or gave no participants_count
LookupFailedCount == 0

\* GetFullChannelRequest answered, or raised (FloodWaitError or another
\* Exception, line 127 takes both): the dict is returned either way
gci_full(p) ==
  /\ pc[p] = "full" /\ Runs(p)
  /\ \/ \E i \in Infos :
          Return(p, [kind |-> "ok", title |-> i[1], subs |-> i[2], lookup |-> TRUE,
                     limited |-> FALSE])
     \/ \E t \in LookupFailTitles, f \in BOOLEAN :
          Return(p, [kind |-> "ok", title |-> t, subs |-> LookupFailedCount,
                     lookup |-> FALSE, limited |-> f])

\* ------------------------------------------------ send_admin_notification
\* send_admin_notification returns to its caller
SendReturn(p) == IF p = "poll" THEN poll_sent ELSE task_sent
\* an exception leaves send_admin_notification (s > 0: FloodWaitError(s))
SendRaise(p, s) == IF p = "poll" THEN poll_raised(s) ELSE task_sent

\* the first send_message went through, or raised a non-flood Exception
\* (logged; the message is dropped)
send_done(p) ==
  /\ pc[p] = "send" /\ Runs(p)
  /\ SendReturn(p)

\* the first send_message raised FloodWaitError(s): await asyncio.sleep(e.seconds)
send_flood(p) ==
  /\ pc[p] = "send" /\ Runs(p)
  /\ \E s \in FloodSecs :
       /\ exc' = [exc EXCEPT ![p] = s]
       /\ wait' = [wait EXCEPT ![p] = s]
  /\ pc' = [pc EXCEPT ![p] = "ssleep"]
  /\ out' = NoOut
  /\ UNCHANGED <<live, now, store, stage, peer, fl, calls, pollLocals, rng>>

\* the sleep is over: await client.send_message(ADMIN_ID, message), unguarded
send_wake(p) ==
  /\ pc[p] = "ssleep" /\ Runs(p)
  /\ Goto(p, "resend")
  /\ out' = NoOut
  /\ UNCHANGED <<live, now, store, stage, peer, pollLocals, rng>>

\* the second send_message went through
resend_done(p) ==
  /\ pc[p] = "resend" /\ Runs(p)
  /\ SendReturn(p)

\* the second send_message raised: the exception leaves send_admin_notification
resend_raise(p) ==
  /\ pc[p] = "resend" /\ Runs(p)
  /\ \E s \in FloodSecs \cup {0} : SendRaise(p, s)

get_channel_info ==
  \E p \in Procs : gci_entity_ok(p) \/ gci_entity_fail(p) \/ gci_entity_flood(p)
                   \/ gci_wake(p) \/ gci_overflow(p) \/ gci_full(p)

send_admin_notification ==
  \E p \in Procs : send_done(p) \/ send_flood(p) \/ send_wake(p)
                   \/ resend_done(p) \/ resend_raise(p)

poll_channels ==
  \/ poll_wake \/ poll_dialogs \/ poll_dialogs_raise \/ poll_xwake \/ poll_adds
  \/ poll_rems \/ poll_upd \/ poll_resume

handle_chat_action == task_me

\* ------------------------------------------------------------- the history
\* hist is left as it is
Keep == UNCHANGED hist

PollWrites(o) == o.by = "poll" /\ o.op \in {"upsert", "delete", "update"}
TaskWrote(o) == o.by = "task" /\ o.op \in {"upsert", "delete"} /\ o.ok

\* hist after a step, from what the step did
Record ==
  LET o == out'
      inRun == stage["poll"] \in {"add", "rem"}
      quiet == live' = live /\ ~TaskWrote(o)
  IN hist' =
       IF o.op = "diff"
         THEN [hist EXCEPT !.stable = TRUE, !.fetched = TRUE, !.wrote = TRUE,
                           !.alone = TRUE]
       ELSE IF o.by = "poll" /\ o.op \in {"abort", "cut"}
         THEN NoHist
       ELSE IF o.op = "select"
         THEN [hist EXCEPT !.run1 = hist.stable /\ hist.alone,
                           !.run2 = hist.stable /\ hist.alone /\ hist.fetched
                                    /\ hist.wrote]
       ELSE IF stage'["poll"] = "none" /\ o.op # "complete"
         THEN [NoHist EXCEPT !.run1 = hist.run1 /\ quiet, !.run2 = hist.run2 /\ quiet]
       ELSE [stable |-> hist.stable /\ live' = live,
             fetched |-> hist.fetched /\ ~(o.by = "poll" /\ o.op = "skip"),
             wrote |-> hist.wrote /\ ~(PollWrites(o) /\ ~o.ok),
             alone |-> hist.alone /\ ~TaskWrote(o),
             run1 |-> hist.run1 /\ (inRun \/ quiet),
             run2 |-> hist.run2 /\ (inRun \/ quiet),
             kept |-> hist.kept, again |-> hist.again]

\* hist after a step of a specification that records the channels kept
RecordKept ==
  LET o == out'
  IN hist' = [hist EXCEPT
                !.kept = IF o.op = "select" THEN {}
                         ELSE IF o.op = "keep" THEN hist.kept \cup {o.id}
                         ELSE hist.kept,
                !.again = IF o.op = "select" THEN hist.kept \cap IdsOf(store')
                          ELSE {}]

\* ------------------------------------------------------ the specifications
Next ==
  \/ env_join /\ Keep
  \/ env_leave /\ Keep
  \/ env_tick /\ Keep
  \/ add_channel_command /\ Keep
  \/ task_resp0 /\ Keep
  \/ task_resp1 /\ Keep
  \/ handle_chat_action /\ Keep
  \/ get_channel_info /\ Keep
  \/ send_admin_notification /\ Keep
  \/ poll_channels /\ Keep

Spec == Init /\ [][Next]_vars

NextHist ==
  \/ env_join /\ Record
  \/ env_leave /\ Record
  \/ add_channel_command /\ Record
  \/ task_resp0 /\ Record
  \/ task_resp1 /\ Record
  \/ handle_chat_action /\ Record
  \/ get_channel_info /\ Record
  \/ send_admin_notification /\ Record
  \/ poll_channels /\ Record

SpecHist == Init /\ [][NextHist]_vars

NextRange ==
  \/ add_range_command /\ Keep
  \/ range_resp /\ Keep
  \/ range_loop /\ Keep
  \/ range_edit /\ Keep
  \/ range_pause /\ Keep
  \/ range_final /\ Keep
  \/ task_resp1 /\ Keep
  \/ get_channel_info /\ Keep

SpecRange == InitRange /\ [][NextRange]_vars

NextStale ==
  \/ env_tick /\ RecordKept
  \/ poll_channels /\ RecordKept
  \/ get_channel_info /\ RecordKept
  \/ send_admin_notification /\ RecordKept

SpecStale == InitStale /\ [][NextStale]_vars

\* a step of the poll coroutine
PollStep == (poll_channels \/ get_channel_info \/ send_admin_notification) /\ RecordKept

\* the event loop runs a coroutine that is ready: a sleep of the poll ends, a
\* call it awaits answers or raises, and then the poll takes its next step
SpecLive == SpecStale /\ WF_vars(PollStep)

\* --------------------------------------------------------------- the claims
\* a step of the poll's reconciliation changed a record, or handed an added
\* or removed notification to the notifier
Reconciled ==
  /\ out.by = "poll"
  /\ \/ out.op \in {"upsert", "delete"} /\ out.ok
     \/ out.note \in {"added", "removed"}
InRun == stage["poll"] \in {"add", "rem"}

\* C1, as stated: a reconciliation run that follows another one, with the
\* same membership and no change of the store by anyone else in between,
\* changes no record and sends no added or removed notification.
C1_Idempotent == (InRun /\ hist.run1) => ~Reconciled

\* C1, amended: so it is when in the first run every fetch gave a channel and
\* every store statement changed its row.
C1_IdempotentAfterCleanRun == (InRun /\ hist.run2) => ~Reconciled

\* a second run in succession has computed its diff, with channels to keep
C1_SecondRun ==
  out.op = "diff" /\ hist.run2 /\ live = Ids /\ IdsOf(store) = Ids

\* C2, as stated: a record of channel c is deleted only while the bot is not
\* a member of c.
C2_DeletedWhileNotMember == (out.op = "delete" /\ out.ok) => out.id \notin live

\* C2, amended: a record of c goes only in the left/kicked handler of an event
\* of c or in the remove loop of a poll cycle whose diff has c, and a diff has
\* only channels the bot is not a member of when it is computed.
C2_DeletedOnSignal ==
  [][ /\ \A c \in IdsOf(store) \ IdsOf(store') :
           \/ pc["task"] = "me" /\ stage["task"] = "left" /\ peer["task"] = c
           \/ pc["poll"] = "rems" /\ \E r \in prems : r.id = c
      /\ out'.op = "diff" => \A r \in prems' : r.id \in IdsOf(store') \ live'
    ]_vars

\* the poll deleted a record while a handler or command was in flight
C2_PollDeleted ==
  out.by = "poll" /\ out.op = "delete" /\ out.ok /\ pc["task"] # "idle"

\* C3: a step that gives a record a count (a new record, or another count)
\* sets last_checked to the time of the step, and the count comes from a
\* count lookup that succeeded.
C3_CountWithChecked ==
  [][ \A c \in Ids :
        (SubsOf(store', c) # {} /\ SubsOf(store', c) # SubsOf(store, c))
          => (LcOf(store', c) = {now'} /\ out'.lookup)
    ]_vars

\* C4: a removed notification has the title and the count the store held for
\* the id right before the delete, and the store has the id no more.
C4_RemovedCarriesStored ==
  out.note = "removed" => (out.same /\ out.id \notin IdsOf(store))

\* C5: the diff of a cycle is adds = L - S and removes = S - L for the
\* membership L and the stored ids S it read, no id is in both, and the add
\* and remove loops take each id they process from these sets, once.
C5_DiffCorrect ==
  [][ /\ out'.op = "diff" =>
           /\ padds' = live' \ IdsOf(store')
           /\ { r.id : r \in prems' } = IdsOf(store') \ live'
           /\ padds' \cap { r.id : r \in prems' } = {}
      /\ (pc["poll"] = "adds" /\ pc'["poll"] = "entity") =>
           (peer'["poll"] \in padds /\ padds' = padds \ {peer'["poll"]})
      /\ (out'.by = "poll" /\ out'.op = "delete") =>
           \E r \in prems : r.id = out'.id /\ prems' = prems \ {r}
      /\ (out'.op # "diff") => (padds' \subseteq padds /\ prems' \subseteq prems)
    ]_vars

\* a diff with channels on both sides
C5_BothSides == out.op = "diff" /\ padds # {} /\ prems # {}

\* C6: in the refresh a change notification goes out only with the store
\* updated, the store is updated only for a change above the update
\* threshold, and then the notification goes out exactly when the change is
\* above the notify threshold.
C6_Thresholds ==
  [][ (out'.by = "poll" /\ out'.op = "update") =>
        /\ out'.note = "change" => out'.ok
        /\ out'.ok =>
             \E o \in SubsOf(store, out'.id), n \in SubsOf(store', out'.id) :
                /\ Significant(n, o)
                /\ out'.note = "change" <=> Notable(n, o)
    ]_vars

C8_ErrorIsolated == out.op # "cut"

\* C9, as stated: at the end of a complete cycle during which the membership
\* did not change and every fetch gave a channel, the stored ids are the
\* membership.
C9_Synced ==
  (out.op = "complete" /\ hist.stable /\ hist.fetched) => IdsOf(store) = live

\* C9, amended: so it is when also every store statement of the cycle changed
\* its row and no handler or command changed the store during the cycle.
C9_SyncedAfterCleanCycle ==
  (out.op = "complete" /\ hist.stable /\ hist.fetched /\ hist.wrote /\ hist.alone)
    => IdsOf(store) = live

\* such a cycle ends with every channel joined
C9_CleanCycle ==
  /\ out.op = "complete" /\ live = Ids
  /\ hist.stable /\ hist.fetched /\ hist.wrote /\ hist.alone

RangeOf(g) == g.lo .. g.hi

RECURSIVE Asc(_, _)
Asc(a, b) ==
  IF a > b THEN <<>>
  ELSE IF a = ADMIN_ID THEN Asc(a + 1, b) ELSE <<a>> \o Asc(a + 1, b)
\* the processed counts of the progress reports due for positions 0 .. k of
\* range g: at a position that does not hold the operator's id and is a
\* multiple of 50 or the last one
RECURSIVE Due(_, _)
Due(g, k) ==
  IF k < 0 THEN <<>>
  ELSE IF g.lo + k # ADMIN_ID /\ (k % ProgressEvery = 0 \/ k = TotalChannels(g) - 1)
         THEN Append(Due(g, k - 1), k + 1)
         ELSE Due(g, k - 1)
IsPrefix(s, t) == Len(s) <= Len(t) /\ s = SubSeq(t, 1, Len(s))
InRange == stage["task"] = "range"
\* /add_range is inside get_channel_info for the id at position i
RangeFetching == pc["task"] \in {"entity", "retry", "fsleep", "full"}
\* /add_range is past get_channel_info for the id at position i
RangeFetched == pc["task"] \in {"redit", "rpause"}

\* C11, as stated: when the loop of /add_range is over, every id of the range
\* but the operator's has been fetched once, the operator's id never, and the
\* last progress report made is the one after the last id of the range.
C11_AllAttemptedAndReported ==
  (InRange /\ pc["task"] = "rfinal") =>
    /\ rng.tried = Asc(rng.lo, rng.hi)
    /\ rng.edits # <<>>
    /\ rng.edits[Len(rng.edits)][1] = TotalChannels(rng)

\* C11, amended: the ids are fetched in ascending order, once each, the
\* operator's never, none passed over whatever the others gave, all of them
\* when the final report is reached; a count goes up only with an upsert that
\* succeeded; the progress reports made are the ones due at the positions
\* that do not hold the operator's id, with the counts of their time.  (A
\* respond or edit that raises ends the command: pc "resp1".)
C11_RangeTolerant ==
  InRange =>
    /\ IsPrefix(rng.tried, Asc(rng.lo, rng.hi))
    /\ rng.added = Cardinality(rng.ups)
    /\ \A n \in DOMAIN rng.tried : rng.tried[n] # ADMIN_ID
    /\ pc["task"] # "resp1" =>
         /\ rng.tried = Asc(rng.lo, IF RangeFetching \/ RangeFetched
                                      THEN rng.lo + rng.i ELSE rng.lo + rng.i - 1)
         /\ [n \in DOMAIN rng.edits |-> rng.edits[n][1]]
              = Due(rng, IF RangeFetched THEN rng.i ELSE rng.i - 1)
    /\ pc["task"] = "rfinal" => rng.tried = Asc(rng.lo, rng.hi)
    /\ pc["task"] = "redit" => rng.edits[Len(rng.edits)] = <<rng.i + 1, rng.added>>
    /\ \A n \in DOMAIN rng.edits : rng.edits[n][2] <= rng.added

\* the final report is reached for a range with the operator's id inside, a
\* failed fetch before it and an upsert after it
C11_PastFailure ==
  /\ out.op = "report" /\ rng.lo = ADMIN_ID - 1 /\ rng.hi = 1
  /\ rng.tried = <<ADMIN_ID - 1, 1>> /\ rng.ups = {1}

\* C12: the refresh selects a stored channel exactly when now - last_checked
\* is above 86400: one checked 86401 seconds ago is selected, one checked
\* 86400 or 86399 seconds ago is not, one never checked is selected.
C12_StrictCutoff ==
  out.op = "select" =>
    \A r \in store :
      /\ (r.id \in { u.id : u \in pupd }) <=> (now - r.lc > 86400)
      /\ r.lc = now - 86401 => r.id \in { u.id : u \in pupd }
      /\ r.lc \in {now - 86400, now - 86399} => r.id \notin { u.id : u \in pupd }
      /\ r.lc = 0 => r.id \in { u.id : u \in pupd }

\* a selection with a channel checked 86401 seconds ago and one checked 86400
\* seconds ago in the store
C12_AtTheCutoff ==
  /\ out.op = "select"
  /\ \E r \in store, q \in store : r.lc = now - 86401 /\ q.lc = now - 86400
  /\ Cardinality(pupd) = 1

\* C13: a step that hands an added notification to the notifier has upserted
\* the channel's record, and a step whose fetch or store write failed leaves
\* the store as it was and hands no notification; in the handler, in /add and
\* in the poll.
C13_AddedOnlyWithRecord ==
  [][ /\ out'.note = "added" =>
           (out'.op = "upsert" /\ out'.ok /\ out'.id \in IdsOf(store'))
      /\ (out'.op = "skip" \/ (out'.op = "upsert" /\ ~out'.ok)) =>
           (store' = store /\ out'.note = "none")
    ]_vars

\* C14: a rate limit is waited out and retried, and never ends as a count
\* put in place of the real one, nor as an exception in the caller, nor as a
\* notification that was not sent: no step writes the count of a result
\* whose count lookup was rate-limited, and send_admin_notification after a
\* second send_message leaves the poll in none of its FloodWaitError handlers.
C14_RateLimitNeverSurfaces ==
  [][ /\ ~out'.limited
      /\ pc["poll"] = "resend" => pc'["poll"] \notin {"xsleep", "backoff"}
    ]_vars

\* C15: the store has at most one record per channel id after every step,
\* and an upsert that succeeded leaves exactly one record of its id, the one
\* it wrote in place of the one the store had, and the other records as
\* they were.
C15_OneRecordPerId ==
  [][ /\ \A c \in IdsOf(store') : Cardinality(RowsOf(store', c)) = 1
      /\ (out'.op = "upsert" /\ out'.ok) =>
           /\ Cardinality(RowsOf(store', out'.id)) = 1
           /\ LcOf(store', out'.id) = {0}
           /\ store' \ RowsOf(store', out'.id) = store \ RowsOf(store, out'.id)
    ]_vars

\* an upsert wrote over the record of a tracked id, with another count
C15_Overwritten ==
  /\ out.op = "upsert" /\ out.ok /\ out.had
  /\ SubsOf(store, out.id) = {101}
  /\ Cardinality(store) = NumIds

\* C16: a refresh step that fetched a stale channel and found a change of at
\* most 50 leaves the store as it is (the record's subscribers and
\* last_checked) and sends nothing, and the next selection of the refresh
\* takes every channel so kept that is still tracked.
C16_KeptAndSelectedAgain ==
  [][ /\ out'.op = "keep" => (store' = store /\ out'.note = "none")
      /\ out'.op = "select" => hist'.again \subseteq { u.id : u \in pupd' }
    ]_vars

\* a selection that takes again a channel the refresh before it had kept
C16_SelectedAgain ==
  out.op = "select" /\ hist.again # {} /\ hist.again \subseteq { u.id : u \in pupd }

\* C17: a fetch of the add loop ends inline, with the channel upserted or
\* skipped for the next cycle: the retries after rate limits do not go on to
\* where the recursion itself fails and ends the cycle.
C17_FetchEndsInline ==
  [][ ( /\ stage["poll"] = "add"
        /\ pc["poll"] \in {"entity", "retry", "full"}
        /\ pc'["poll"] \notin {"entity", "retry", "fsleep", "full"} )
        => out'.op \in {"upsert", "skip"}
    ]_vars

\* C18: in the refresh a rate limit met for a channel is answered with the
\* wait it mandates and the loop goes on with the next channel: a count
\* lookup that was rate-limited is followed by that wait, a FloodWaitError
\* that reaches the loop is slept out with the batch as it was, the refresh
\* ends only with the batch empty, and a channel leaves the batch only after
\* its own fetch.
C18_RefreshWaitsAndGoesOn ==
  [][ stage["poll"] = "upd" =>
        /\ (out'.by = "poll" /\ out'.limited) =>
             (pc'["poll"] = "backoff" /\ wait'["poll"] \in FloodSecs)
        /\ pc'["poll"] = "backoff" =>
             (wait'["poll"] \in FloodSecs /\ pupd' = pupd /\ stage'["poll"] = "upd")
        /\ stage'["poll"] # "upd" => (pupd = {} /\ out'.op = "complete")
        /\ pupd' # pupd =>
             /\ pupd' = pupd \ {CurRow}
             /\ peer["poll"] = CurRow.id
             /\ pc["poll"] # "upd"
    ]_vars

\* C19: the refresh goes into its pause exactly after the 10th, 20th, ...
\* channel of the batch (pidx + 1 channels are processed when the channel at
\* pidx is done), whatever the fetch gave, and not before.
C19_PauseAfterEveryTen ==
  [][ stage["poll"] = "upd" =>
        /\ (pc["poll"] # "pause" /\ pc'["poll"] = "pause") => (pidx + 1) % 10 = 0
        /\ (pc["poll"] # "pause" /\ pidx' = pidx + 1) => (pidx + 1) % 10 # 0
    ]_vars

\* a poll cycle has ended: its last step completed it, or cut it short
CycleEnded == out.by = "poll" /\ out.op \in {"complete", "abort", "cut"}

\* C20: a cycle that ends, complete or cut short, leaves the poll in the
\* sleep of the interval (after the sleep of the rate limit, if that cut it),
\* and from there another cycle starts: cycles start infinitely often.
C20_PollsForever ==
  /\ [](CycleEnded => pc["poll"] \in {"interval", "xsleep"})
  /\ (pc["poll"] = "xsleep") ~> (pc["poll"] = "interval")
  /\ CycleEnded ~> (pc["poll"] = "dialogs")
  /\ []<>(pc["poll"] = "dialogs")

\* a cycle was cut short by a rate limit and the poll sleeps it out
C20_CutByRateLimit ==
  out.by = "poll" /\ out.op = "cut" /\ pc["poll"] = "xsleep" /\ wait["poll"] > 0

\* C21: with the left/kicked handler and the poll interleaved, a removed
\* notification is handed to the notifier only by a delete that took a record
\* out of the store, each such delete hands over one, a delete that took none
\* (an untracked id, a record already gone) leaves the store as it was and
\* hands over nothing, and the notifier sends a message handed to it at most
\* once: the second send_message follows only a first one that was
\* rate-limited.
C21_RemovedMatchesDelete ==
  [][ /\ out'.note = "removed" =>
           /\ out'.op = "delete" /\ out'.ok
           /\ out'.id \in IdsOf(store) \ IdsOf(store')
      /\ out'.op = "delete" =>
           /\ out'.ok => (out'.note = "removed" /\ pc'[out'.by] = "send")
           /\ ~out'.ok => (store' = store /\ out'.note = "none"
                            /\ pc'[out'.by] # "send")
      /\ \A p \in Procs :
           /\ (pc[p] # "send" /\ pc'[p] = "send") => (out'.by = p /\ out'.note # "none")
           /\ (pc[p] # "ssleep" /\ pc'[p] = "ssleep") => pc[p] = "send"
           /\ (pc[p] # "resend" /\ pc'[p] = "resend") => pc[p] = "ssleep"
           /\ (pc[p] = "resend" /\ pc'[p] # "resend") => pc'[p] \notin {"send", "ssleep"}
    ]_vars

\* the poll's delete of a channel of its diff took no record: the handler of
\* the left event had deleted it since the diff
C21_HandlerWasFirst ==
  /\ out.by = "poll" /\ out.op = "delete" /\ ~out.ok
  /\ out.id \notin IdsOf(store)
  /\ out.note = "none" /\ pc["poll"] = "rems"

====
